---- MODULE Spec2Model ----
(***************************************************************************)
(* Zoom state of obsidian-zoom: src/logic/KeepOnlyZoomedContentVisible.ts. *)
(*                                                                         *)
(* The state field `zoomStateField` holds a DecorationSet of block-level   *)
(* replace decorations (the hidden segments).  Every transaction of the    *)
(* editor runs its `update`: the set is mapped through the transaction's   *)
(* changes and then the transaction's effects are applied in order.        *)
(*                                                                         *)
(* The document is modelled by its length (the field reads nothing else).  *)
(* A change set is the sequence of sections <<len, ins>> CodeMirror keeps  *)
(* (ins = -1: len unchanged characters; ins >= 0: len characters replaced  *)
(* by ins characters).  A decoration set is the ordered sequence of its    *)
(* ranges [from, to]; each range sits in a chunk of its own, as the two    *)
(* `value.update({add: [...]})` calls of update build it.                  *)
(*                                                                         *)
(* The functions of the class KeepOnlyZoomedContentVisible are followed    *)
(* dispatch by dispatch in SpecFacade and SpecAnyCaller: there the text of *)
(* the document is kept too, for the indentation of the line zoomed into,  *)
(* with the hint on the editor element and the requests made of the view.  *)
(* SpecQuery applies calculateVisibleContentRange to lists of ranges.      *)
(***************************************************************************)
EXTENDS Integers, Sequences, FiniteSets, TLC

\* ------------------------------------------------------------------ bounds

\* Longest document the model edits.
MaxLen == 5

\* Most characters one change inserts.
MaxIns == 2

\* ------------------------------------------------- zoomMarkHidden (line 9)

\* Decoration.replace({ block: true }): inclusive on both sides, so
\* startSide = Side.BlockIncStart - 1 and endSide = Side.BlockIncEnd + 1,
\* and a block decoration with startSide <= 0 maps with MapMode.TrackBefore.
StartSide == -300000001

EndSide == 200000001

NoPos == -1

None == [from |-> -1, to |-> -1]

\* ----------------------------------------------------- change sets (tr.changes)

\* addSection of ChangeSet.of: adjacent deletions are joined, adjacent
\* insertions are joined, an empty unchanged section is skipped.
AddSection(sections, len, ins) ==
  LET n == Len(sections) IN
  IF len = 0 /\ ins <= 0 THEN sections
  ELSE IF n > 0 /\ ins <= 0 /\ ins = sections[n][2]
    THEN [sections EXCEPT ![n] = <<sections[n][1] + len, ins>>]
  ELSE IF n > 0 /\ len = 0 /\ sections[n][1] = 0
    THEN [sections EXCEPT ![n] = <<0, sections[n][2] + ins>>]
  ELSE Append(sections, <<len, ins>>)

\* ChangeSet.of(specs, length) for specs in document order: the sections of
\* the change set that replaces [from, to) by ins characters for each spec.
RECURSIVE SectionsFrom(_, _, _, _, _)
SectionsFrom(specs, i, pos, length, sections) ==
  IF i > Len(specs)
    THEN AddSection(sections, length - pos, -1)
    ELSE LET s == specs[i]
             gap == AddSection(sections, s.from - pos, -1)
         IN SectionsFrom(specs, i + 1, s.to, length,
                         AddSection(gap, s.to - s.from, s.ins))

ChangeSetOf(specs, length) == SectionsFrom(specs, 1, 0, length, <<>>)

\* ChangeDesc.empty: no section changes anything.
ChangesEmpty(sections) ==
  \A i \in 1..Len(sections) : sections[i][2] < 0

\* ChangeDesc.newLength.
RECURSIVE NewLength(_, _)
NewLength(sections, i) ==
  IF i > Len(sections) THEN 0
  ELSE (IF sections[i][2] < 0 THEN sections[i][1] ELSE sections[i][2])
       + NewLength(sections, i + 1)

\* ChangeDesc.mapPos(pos, assoc, mode); mode is "Simple" or "TrackBefore"
\* (the only modes a block decoration with startSide <= 0 uses).  NoPos
\* stands for the null a tracking mode returns.
RECURSIVE MapPosFrom(_, _, _, _, _, _, _)
MapPosFrom(sections, i, posA, posB, pos, assoc, mode) ==
  IF i > Len(sections) THEN posB
  ELSE LET len == sections[i][1]
           ins == sections[i][2]
           endA == posA + len
       IN IF ins < 0
            THEN IF endA > pos THEN posB + (pos - posA)
                 ELSE MapPosFrom(sections, i + 1, endA, posB + len, pos, assoc, mode)
            ELSE IF mode = "TrackBefore" /\ endA >= pos /\ posA < pos
                   THEN NoPos
                 ELSE IF endA > pos \/ (endA = pos /\ assoc < 0 /\ len = 0)
                   THEN (IF posA = pos \/ assoc < 0 THEN posB ELSE posB + ins)
                 ELSE MapPosFrom(sections, i + 1, endA, posB + ins, pos, assoc, mode)

MapPos(sections, pos, assoc, mode) ==
  MapPosFrom(sections, 1, 0, 0, pos, assoc, mode)

\* ChangeDesc.touchesRange(from, to): "cover" when one changed section
\* strictly contains the range, "touch" when one touches it, else "none".
RECURSIVE TouchesFrom(_, _, _, _, _)
TouchesFrom(sections, i, pos, from, to) ==
  IF i > Len(sections) \/ pos > to THEN "none"
  ELSE LET len == sections[i][1]
           ins == sections[i][2]
           end == pos + len
       IN IF ins >= 0 /\ pos <= to /\ end >= from
            THEN (IF pos < from /\ end > to THEN "cover" ELSE "touch")
            ELSE TouchesFrom(sections, i + 1, end, from, to)

TouchesRange(sections, from, to) == TouchesFrom(sections, 1, 0, from, to)

\* ------------------------------------------------- decoration sets (value)

\* Chunk.map for the one range of a chunk: the mapped range, or None when
\* the range is dropped.
ChunkMap(sections, r) ==
  IF r.from = r.to
    THEN LET mapped == MapPos(sections, r.from, StartSide, "TrackBefore")
             newTo == MapPos(sections, r.from, EndSide, "Simple")
         IN IF mapped = NoPos \/ newTo < mapped THEN None
            ELSE [from |-> mapped, to |-> newTo]
    ELSE LET newFrom == MapPos(sections, r.from, StartSide, "Simple")
             newTo == MapPos(sections, r.to, EndSide, "Simple")
         IN IF newFrom > newTo THEN None
            ELSE [from |-> newFrom, to |-> newTo]

\* RangeSet.map for one chunk: untouched chunks move with their start,
\* covered chunks are dropped, touched chunks are mapped range by range.
MapChunk(sections, r) ==
  LET touch == TouchesRange(sections, r.from, r.to)
      start == MapPos(sections, r.from, -1, "Simple")
  IN IF touch = "none" THEN [from |-> start, to |-> start + (r.to - r.from)]
     ELSE IF touch = "cover" THEN None
     ELSE ChunkMap(sections, r)

RECURSIVE MapChunks(_, _, _)
MapChunks(value, sections, i) ==
  IF i > Len(value) THEN <<>>
  ELSE LET m == MapChunk(sections, value[i])
           rest == MapChunks(value, sections, i + 1)
       IN IF m = None THEN rest ELSE <<m>> \o rest

\* value.map(tr.changes)
RangeSetMap(value, sections) ==
  IF ChangesEmpty(sections) \/ value = <<>> THEN value
  ELSE MapChunks(value, sections, 1)

\* value.update({ add: [range] }): the range goes before the first range
\* that does not start before it.
RECURSIVE RangeSetAddAt(_, _, _)
RangeSetAddAt(value, r, i) ==
  IF i > Len(value) THEN Append(value, r)
  ELSE IF value[i].from - r.from >= 0
    THEN SubSeq(value, 1, i - 1) \o <<r>> \o SubSeq(value, i, Len(value))
  ELSE RangeSetAddAt(value, r, i + 1)

RangeSetAdd(value, r) == RangeSetAddAt(value, r, 1)

\* value.update({ filter: () => false })
RangeSetClear(value) == <<>>

\* calculateHiddenContentRanges: rangeSetToArray lists the ranges of the
\* set in the set's own order.
rangeSetToArray(value) == [i \in 1..Len(value) |-> [from |-> value[i].from, to |-> value[i].to]]

calculateHiddenContentRanges(value) == rangeSetToArray(value)

\* calculateVisibleContentRange as it would be without the reserved
\* separator before the second segment (b.from for b.from - 1).
VisibleRangeNoGap(value, docLength) ==
  LET hidden == calculateHiddenContentRanges(value) IN
  IF Len(hidden) = 1
    THEN LET a == hidden[1] IN
         IF a.from = 0
           THEN [from |-> a.to + 1, to |-> docLength]
           ELSE [from |-> 0, to |-> a.from]
  ELSE IF Len(hidden) = 2
    THEN [from |-> hidden[1].to + 1, to |-> hidden[2].from]
  ELSE None

\* calculateVisibleContentRange(state); None stands for null.
calculateVisibleContentRange(value, docLength) ==
  LET hidden == calculateHiddenContentRanges(value) IN
  IF Len(hidden) = 1
    THEN LET a == hidden[1] IN
         IF a.from = 0
           THEN [from |-> a.to + 1, to |-> docLength]
           ELSE [from |-> 0, to |-> a.from - 1]
  ELSE IF Len(hidden) = 2
    THEN LET a == hidden[1]
             b == hidden[2]
         IN [from |-> a.to + 1, to |-> b.from - 1]
  ELSE None

\* ------------------------------------------------ zoomStateField (11-45)

\* zoomInEffect.of({ from, to }) and zoomOutEffect.of()
zoomInEffect(from, to) == [type |-> "zoomIn", from |-> from, to |-> to]

zoomOutEffect == [type |-> "zoomOut", from |-> 0, to |-> 0]

\* create
Create == <<>>

\* The zoom-in branch as it would be without line 21, the clearing filter.
ZoomInNoClear(value, e, newLen) ==
  LET withPrefix == IF e.from > 0
                      THEN RangeSetAdd(value, [from |-> 0, to |-> e.from - 1])
                      ELSE value
  IN IF e.to < newLen
       THEN RangeSetAdd(withPrefix, [from |-> e.to + 1, to |-> newLen])
       ELSE withPrefix

\* The zoom-in branch as it would be with the prefix ending at e.value.from.
ZoomInPrefixToFrom(value, e, newLen) ==
  LET withPrefix == IF e.from > 0
                      THEN RangeSetAdd(<<>>, [from |-> 0, to |-> e.from])
                      ELSE <<>>
  IN IF e.to < newLen
       THEN RangeSetAdd(withPrefix, [from |-> e.to + 1, to |-> newLen])
       ELSE withPrefix

\* The zoom-in branch (lines 20-34); newLen is tr.newDoc.length.
ZoomInUpdate(value, e, newLen) ==
  LET cleared == RangeSetClear(value)
      withPrefix == IF e.from > 0
                      THEN RangeSetAdd(cleared, [from |-> 0, to |-> e.from - 1])
                      ELSE cleared
  IN IF e.to < newLen
       THEN RangeSetAdd(withPrefix, [from |-> e.to + 1, to |-> newLen])
       ELSE withPrefix

\* The zoom-out branch as it would be with a filter that keeps the ranges
\* that start after offset 0.
ZoomOutKeepsSuffix(value) ==
  SelectSeq(value, LAMBDA r : r.from > 0)

\* The zoom-out branch of update (lines 36-38).
ZoomOutUpdate(value) == RangeSetClear(value)

\* The body of the loop over tr.effects for one effect.
ApplyEffect(value, e, newLen) ==
  LET afterIn == IF e.type = "zoomIn" THEN ZoomInUpdate(value, e, newLen) ELSE value
  IN IF e.type = "zoomOut" THEN ZoomOutUpdate(afterIn) ELSE afterIn

\* The loop as it would be if it ran over tr.effects from the last effect
\* to the first.
RECURSIVE ApplyEffectsReversed(_, _, _, _)
ApplyEffectsReversed(value, effects, i, newLen) ==
  IF i > Len(effects) THEN value
  ELSE ApplyEffect(ApplyEffectsReversed(value, effects, i + 1, newLen),
                   effects[i], newLen)

\* for (const e of tr.effects) { ... }
RECURSIVE ApplyEffects(_, _, _, _)
ApplyEffects(value, effects, i, newLen) ==
  IF i > Len(effects) THEN value
  ELSE ApplyEffects(ApplyEffect(value, effects[i], newLen), effects, i + 1, newLen)

\* changes.length, the length of the document before the changes.
RECURSIVE OldLength(_, _)
OldLength(sections, i) ==
  IF i > Len(sections) THEN 0 ELSE sections[i][1] + OldLength(sections, i + 1)

\* update as it would be with tr.startState.doc.length for
\* tr.newDoc.length.
UpdateOldLength(value, sections, effects) ==
  ApplyEffects(RangeSetMap(value, sections), effects, 1, OldLength(sections, 1))

\* update as it would be without line 17, the mapping through tr.changes.
UpdateNoMap(value, sections, effects) ==
  ApplyEffects(value, effects, 1, NewLength(sections, 1))

\* update: (value, tr) => ...; sections are tr.changes, effects tr.effects.
Update(value, sections, effects) ==
  ApplyEffects(RangeSetMap(value, sections), effects, 1, NewLength(sections, 1))

\* ------------------------------------------------------------ transactions

\* One change of a transaction: [from, to) replaced by ins characters.
\* ChangeSet.of skips a change that deletes and inserts nothing.
ChangeSpecs(length) ==
  { [from |-> f, to |-> t, ins |-> n] :
      f \in 0..length, t \in 0..length, n \in 0..MaxIns }

IsChange(s) == s.from <= s.to /\ (s.from < s.to \/ s.ins > 0)

\* The change batches of the model: one change, or two in document order.
ChangeBatches(length) ==
  LET changes == { c \in ChangeSpecs(length) : IsChange(c) } IN
  { <<s>> : s \in changes }
  \cup { b \in { <<s1, s2>> : s1 \in changes, s2 \in changes } : b[1].to <= b[2].from }

\* The zoom effects a transaction on a document of this length can carry.
ZoomIns(length) ==
  { zoomInEffect(f, t) : f \in 0..length, t \in 0..length }

ValidZoomIn(e, length) == 0 <= e.from /\ e.from <= e.to /\ e.to <= length

Effects(length) ==
  { e \in ZoomIns(length) : ValidZoomIn(e, length) } \cup {zoomOutEffect}

NoTr == [startDoc |-> 0, startValue |-> <<>>, changes |-> <<>>, effects |-> <<>>]

NoZoom == [kind |-> "none", from |-> -1, to |-> -1, edited |-> FALSE]

\* Which sides a zoom-in hides on a document of this length.
ZoomKind(e, length) ==
  IF e.from > 0 /\ e.to < length THEN "both"
  ELSE IF e.from > 0 THEN "prefix"
  ELSE IF e.to < length THEN "suffix"
  ELSE "whole"

\* ------------------------------------------------------------- document text

\* The characters of a document: "x" a visible character, "s" a white-space
\* character, "n" a line break.  The text a change inserts is all "x".
Xs(n) == [i \in 1..n |-> "x"]

\* The document after the changes of a transaction (tr.newDoc), the
\* changes taken from the last to the first.
RECURSIVE ApplyChanges(_, _, _)
ApplyChanges(text, specs, i) ==
  IF i = 0 THEN text
  ELSE LET s == specs[i]
           t == SubSeq(text, 1, s.from) \o Xs(s.ins) \o SubSeq(text, s.to + 1, Len(text))
       IN ApplyChanges(t, specs, i - 1)

\* doc.lineAt(pos).from: the offset after the last line break before pos.
RECURSIVE LineStart(_, _)
LineStart(text, pos) ==
  IF pos = 0 \/ text[pos] = "n" THEN pos ELSE LineStart(text, pos - 1)

\* The length of the match of /^(\s*)/ on the line that starts at offset i.
RECURSIVE LeadingSpaces(_, _)
LeadingSpaces(text, i) ==
  IF i < Len(text) /\ text[i + 1] = "s" THEN 1 + LeadingSpaces(text, i + 1) ELSE 0

\* calculateIndentLevel(view, from), for 0 <= from <= doc.length.
calculateIndentLevel(text, from) == LeadingSpaces(text, LineStart(text, from))

\* applyIndentRemoval(view, indentChars): the value of --zoom-indent-chars
\* afterwards; 0 stands for the class and the property being absent.
applyIndentRemoval(hint, indentChars) ==
  IF indentChars > 0 THEN indentChars ELSE hint

\* removeIndentRemoval(view)
removeIndentRemoval(hint) == 0

NoCall == [op |-> "none", from |-> 0, to |-> 0, scroll |-> "omitted", pc |-> "none"]

Unqueried == [from |-> -2, to |-> -2]

VARIABLES
  doc,      \* state.doc.length
  value,    \* state.field(zoomStateField)
  phase,    \* the view's update state: "idle" or "updating"
  tr,       \* the transaction the view is updating with
  zoomed,   \* history: the sides the last zoom-in dispatched alone hid, its
            \* range while no edit followed it, and whether one did
  text,     \* state.doc
  sel,      \* state.selection.main, a cursor
  hint,     \* --zoom-indent-chars of the editor element, 0 when absent
  call,     \* the call of keepOnlyZoomedContentVisible or showAllContent
            \* in progress, or the last one that returned
  log,      \* the requests that call has made of the host, in order
  visible   \* what the last calculateVisibleContentRange returned

vars == <<doc, value, phase, tr, zoomed, text, sel, hint, call, log, visible>>

\* Spec follows the state field: its documents hold no white space and no
\* line break, and the cursor is at the start of the document.
Init ==
  /\ doc \in 0..MaxLen
  /\ value = Create
  /\ phase = "idle"
  /\ tr = NoTr
  /\ zoomed = NoZoom
  /\ text = Xs(doc)
  /\ sel = 0
  /\ hint = 0
  /\ call = NoCall
  /\ log = <<>>
  /\ visible = Unqueried

\* view.dispatch(spec): the transaction is built on the current state and
\* every state field is updated with it.
Apply(specs, effects) ==
  LET sections == ChangeSetOf(specs, doc) IN
  /\ NewLength(sections, 1) <= MaxLen
  /\ doc' = NewLength(sections, 1)
  /\ value' = Update(value, sections, effects)
  /\ tr' = [startDoc |-> doc, startValue |-> value,
            changes |-> specs, effects |-> effects]
  /\ phase' = "updating"
  /\ text' = ApplyChanges(text, specs, Len(specs))
  /\ sel' = MapPos(sections, sel, -1, "Simple")
  /\ UNCHANGED <<zoomed, visible>>

\* The user edits the document.
DocChanged ==
  /\ phase = "idle"
  /\ \E specs \in ChangeBatches(doc) : Apply(specs, <<>>)
  /\ UNCHANGED <<hint, call, log>>

\* keepOnlyZoomedContentVisible: view.dispatch({ effects: [effect] })
ZoomIn ==
  /\ phase = "idle"
  /\ \E e \in ZoomIns(doc) :
       /\ ValidZoomIn(e, doc)
       /\ hint' = applyIndentRemoval(hint, calculateIndentLevel(text, e.from))
       /\ Apply(<<>>, <<e>>)
  /\ UNCHANGED <<call, log>>

\* showAllContent: view.dispatch({ effects: [zoomOutEffect.of()] })
ZoomOut ==
  /\ phase = "idle"
  /\ hint' = removeIndentRemoval(hint)
  /\ Apply(<<>>, <<zoomOutEffect>>)
  /\ UNCHANGED <<call, log>>

\* Any other transaction: several effects, or changes together with an
\* effect.  The ranges of its zoom-in effects are offsets of the new document.
Batch ==
  /\ phase = "idle"
  /\ \/ \E e1 \in Effects(doc), e2 \in Effects(doc) : Apply(<<>>, <<e1, e2>>)
     \/ \E specs \in ChangeBatches(doc) :
          LET newLen == NewLength(ChangeSetOf(specs, doc), 1) IN
          /\ Len(specs) = 1
          /\ newLen <= MaxLen
          /\ \E e \in Effects(newLen) : Apply(specs, <<e>>)
  /\ UNCHANGED <<hint, call, log>>

\* The view has finished its update.
Settle ==
  /\ phase = "updating"
  /\ phase' = "idle"
  /\ tr' = NoTr
  /\ zoomed' =
       IF tr.changes = <<>> /\ Len(tr.effects) = 1 /\ tr.effects[1].type = "zoomIn"
         THEN [kind |-> ZoomKind(tr.effects[1], doc), from |-> tr.effects[1].from,
               to |-> tr.effects[1].to, edited |-> FALSE]
       ELSE IF tr.effects = <<>> /\ zoomed # NoZoom
         THEN [kind |-> zoomed.kind, from |-> -1, to |-> -1, edited |-> TRUE]
       ELSE NoZoom
  /\ UNCHANGED <<doc, value, text, sel, hint, call, log, visible>>

Next == DocChanged \/ ZoomIn \/ ZoomOut \/ Batch \/ Settle

Spec == Init /\ [][Next]_vars

\* ------------------------------------------------------------------ claims

\* The transaction the view is updating with carries exactly one effect, a
\* zoom-in.
LoneZoomIn ==
  phase = "updating" /\ Len(tr.effects) = 1 /\ tr.effects[1].type = "zoomIn"

\* The segments the design asks of zoom-in(f, t) on a document of length L.
Prefix(f) == [from |-> 0, to |-> f - 1]

Suffix(t, L) == [from |-> t + 1, to |-> L]

Segments(f, t, L) ==
  (IF f > 0 THEN {Prefix(f)} ELSE {}) \cup (IF t < L THEN {Suffix(t, L)} ELSE {})

HiddenSet == { value[i] : i \in 1..Len(value) }

\* C1: an update carrying a single zoom-in(from, to) effect, from any prior
\* segment set, leaves exactly these segments: [0, from-1) iff from > 0 and
\* [to+1, L) iff to < L, L the length of the new document, and no other.
C1_ZoomInSegments ==
  LoneZoomIn =>
    LET f == tr.effects[1].from
        t == tr.effects[1].to
    IN /\ (Prefix(f) \in HiddenSet) <=> (f > 0)
       /\ (Suffix(t, doc) \in HiddenSet) <=> (t < doc)
       /\ \A r \in HiddenSet : r = Prefix(f) \/ r = Suffix(t, doc)
       /\ Len(value) = Cardinality(HiddenSet)

\* A zoom-in to the middle of a document that had hidden segments already.
C1_Witness ==
  /\ LoneZoomIn
  /\ tr.startValue # <<>>
  /\ tr.effects[1] = zoomInEffect(2, 2)
  /\ doc = 4
  /\ value = <<Prefix(2), Suffix(2, 4)>>

\* C2: right after zoom-in(from, to) the visible-range query returns
\* (from, to), and none when from = 0 and to = L.
C2_VisibleAfterZoomIn ==
  LoneZoomIn =>
    LET f == tr.effects[1].from
        t == tr.effects[1].to
    IN calculateVisibleContentRange(value, doc) =
         IF f = 0 /\ t = doc THEN None ELSE [from |-> f, to |-> t]

\* The zoom-in whose two hidden segments are both empty: from = 1, to = L-1.
C2_Witness ==
  /\ LoneZoomIn
  /\ tr.effects[1] = zoomInEffect(1, 3)
  /\ doc = 4
  /\ Len(value) = 2
  /\ calculateVisibleContentRange(value, doc) = [from |-> 1, to |-> 3]

\* C3: the segment set never holds more than two segments.
C3_AtMostTwoSegments == Len(value) <= 2

\* An update with two zoom-in effects, on a state that had two segments.
C3_Witness ==
  /\ phase = "updating"
  /\ Len(tr.effects) = 2
  /\ tr.effects[1].type = "zoomIn"
  /\ tr.effects[2].type = "zoomIn"
  /\ tr.effects[1] # tr.effects[2]
  /\ Len(tr.startValue) = 2
  /\ Len(value) = 2

\* C4: every hidden segment satisfies 0 <= from <= to <= len(doc).
C4_SegmentsInDocument ==
  \A i \in 1..Len(value) :
    0 <= value[i].from /\ value[i].from <= value[i].to /\ value[i].to <= doc

\* Two segments mapped through a deletion that shortened the document.
C4_Witness ==
  /\ phase = "updating"
  /\ tr.effects = <<>>
  /\ doc < tr.startDoc
  /\ Len(tr.startValue) = 2
  /\ Len(value) = 2
  /\ value[2].to = doc

\* C5: two hidden segments, in ascending order of from, do not overlap.
C5_SegmentsDisjoint ==
  Len(value) = 2 =>
    /\ value[1].from <= value[2].from
    /\ value[1].to <= value[2].from

\* The last transaction dispatched alone a zoom-in and only edits followed.
Zoomed == zoomed.kind # "none"

\* C6: zoom-in, any change batches, then zoom-out: no hidden range is left.
C6_ZoomOutAfterEdits ==
  (phase = "updating" /\ Zoomed /\ tr.changes = <<>> /\ tr.effects = <<zoomOutEffect>>)
    => calculateHiddenContentRanges(value) = <<>>

\* A zoom-out of two segments that edits have moved since the zoom-in.
C6_Witness ==
  /\ phase = "updating"
  /\ zoomed.kind = "both"
  /\ zoomed.edited
  /\ tr.changes = <<>>
  /\ tr.effects = <<zoomOutEffect>>
  /\ Len(tr.startValue) = 2
  /\ tr.startValue[1].to >= 1
  /\ value = <<>>

\* C7: an update whose one effect is a zoom-out yields the empty set from
\* any state, the empty one included, and a second zoom-out changes nothing.
C7_ZoomOutIdempotent ==
  (phase = "updating" /\ tr.effects = <<zoomOutEffect>>) =>
    /\ value = <<>>
    /\ Update(value, ChangeSetOf(<<>>, doc), <<zoomOutEffect>>) = value

\* A zoom-out dispatched in the Idle state.
C7_Witness ==
  /\ phase = "updating"
  /\ tr.effects = <<zoomOutEffect>>
  /\ tr.changes = <<>>
  /\ tr.startValue = <<>>
  /\ zoomed = NoZoom
  /\ value = <<>>

\* The last transaction was zoom-in(zoomed.from, zoomed.to), dispatched
\* alone, and nothing was dispatched since.
FreshZoom == Zoomed /\ ~zoomed.edited

\* C8: zoom-in(a, b) then at once zoom-in(c, d): the segments are those of
\* zoom-in(c, d) on the Idle state, none of the first zoom is left.
C8_ReZoomOverrides ==
  (LoneZoomIn /\ FreshZoom /\ tr.changes = <<>>) =>
    LET c == tr.effects[1].from
        d == tr.effects[1].to
    IN /\ value = Update(Create, ChangeSetOf(<<>>, doc), <<zoomInEffect(c, d)>>)
       /\ HiddenSet = Segments(c, d, doc)

\* A second zoom-in whose range differs on both sides from the first, which
\* had left two segments.
C8_Witness ==
  /\ LoneZoomIn
  /\ FreshZoom
  /\ tr.changes = <<>>
  /\ zoomed.kind = "both"
  /\ Len(tr.startValue) = 2
  /\ tr.effects[1].from > zoomed.from
  /\ tr.effects[1].to < zoomed.to
  /\ Len(value) = 2

\* The transaction inserted n characters at offset p and did nothing else.
Inserted(p, n) ==
  /\ phase = "updating"
  /\ tr.effects = <<>>
  /\ tr.changes = <<[from |-> p, to |-> p, ins |-> n]>>

\* C9: after zoom-in(from, to) with from > 0, inserting N characters at an
\* offset p < from makes the visible range (from + N, to + N).
C9_InsertBeforeShifts ==
  \A p \in 0..MaxLen, n \in 1..MaxIns :
    (FreshZoom /\ zoomed.from > 0 /\ p < zoomed.from /\ Inserted(p, n)) =>
      calculateVisibleContentRange(value, doc) =
        [from |-> zoomed.from + n, to |-> zoomed.to + n]

\* Two characters inserted at from - 1, the end of the hidden prefix, while
\* both sides are hidden.
C9_Witness ==
  /\ FreshZoom
  /\ zoomed.kind = "both"
  /\ zoomed.from = 2
  /\ Inserted(1, 2)
  /\ calculateVisibleContentRange(value, doc) = [from |-> 4, to |-> zoomed.to + 2]

\* C10: the effects of one update are applied in the order issued, the last
\* deciding: [zoom-in, zoom-out] leaves no segment, [zoom-out, zoom-in(f, t)]
\* the segments of a fresh zoom-in(f, t).
C10_LastEffectWins ==
  (phase = "updating" /\ Len(tr.effects) = 2) =>
    LET e1 == tr.effects[1]
        e2 == tr.effects[2]
    IN /\ (e1.type = "zoomIn" /\ e2.type = "zoomOut") => value = <<>>
       /\ (e1.type = "zoomOut" /\ e2.type = "zoomIn") =>
            /\ HiddenSet = Segments(e2.from, e2.to, doc)
            /\ Len(value) = Cardinality(HiddenSet)

\* [zoom-in, zoom-out] in one update, on a state with hidden segments.
C10_Witness ==
  /\ phase = "updating"
  /\ Len(tr.effects) = 2
  /\ tr.effects[1].type = "zoomIn"
  /\ tr.effects[1].from > 0
  /\ tr.effects[2].type = "zoomOut"
  /\ tr.startValue # <<>>
  /\ value = <<>>


\* ------------------------------------------------ the visible-range query

\* The hidden ranges a query may be handed: up to three ranges inside the
\* document, in ascending order of from.  Three is one more than the state
\* field ever holds; the query has a branch for it.
RangesIn(length) ==
  { [from |-> f, to |-> t] : f \in 0..length, t \in 0..length }

SegmentLists(length) ==
  LET R == { r \in RangesIn(length) : r.from <= r.to } IN
  {<<>>} \cup { <<a>> : a \in R }
         \cup { s \in { <<a, b>> : a \in R, b \in R } : s[1].from <= s[2].from }
         \cup { s \in { <<a, b, c>> : a \in R, b \in R, c \in R } :
                  s[1].from <= s[2].from /\ s[2].from <= s[3].from }

InitQuery ==
  /\ doc \in 0..MaxLen
  /\ value \in SegmentLists(doc)
  /\ phase = "idle"
  /\ tr = NoTr
  /\ zoomed = NoZoom
  /\ text = Xs(doc)
  /\ sel = 0
  /\ hint = 0
  /\ call = NoCall
  /\ log = <<>>
  /\ visible = Unqueried

\* calculateVisibleContentRange(state)
QueryVisible ==
  /\ visible = Unqueried
  /\ visible' = calculateVisibleContentRange(value, doc)
  /\ UNCHANGED <<doc, value, phase, tr, zoomed, text, sel, hint, call, log>>

NextQuery == QueryVisible

SpecQuery == InitQuery /\ [][NextQuery]_vars

\* C11: the visible-range query answers for every set of hidden segments,
\* and its answer is the one of the case table: none for no segment; for one
\* segment a, (a.to + 1, document length) when a.from is 0 and (0, a.from - 1)
\* otherwise; for two segments a, b in ascending order, (a.to + 1, b.from - 1);
\* none for more than two.
C11_QueryCaseTable ==
  visible # Unqueried =>
    /\ Len(value) = 0 => visible = None
    /\ (Len(value) = 1 /\ value[1].from = 0) =>
         visible = [from |-> value[1].to + 1, to |-> doc]
    /\ (Len(value) = 1 /\ value[1].from # 0) =>
         visible = [from |-> 0, to |-> value[1].from - 1]
    /\ Len(value) = 2 =>
         visible = [from |-> value[1].to + 1, to |-> value[2].from - 1]
    /\ Len(value) > 2 => visible = None

C11_Witness ==
  /\ visible # Unqueried
  /\ Len(value) = 1
  /\ value[1].from = 2
  /\ visible = [from |-> 0, to |-> 1]


\* ------------------------------------- KeepOnlyZoomedContentVisible (122-172)

MaxText == 3

\* The documents of the calls: every text of up to MaxText characters.
Texts == UNION { [1..k -> {"x", "s", "n"}] : k \in 0..MaxText }

\* options: { scrollIntoView?: boolean }
ScrollOptions == {"omitted", "true", "false"}

\* const { scrollIntoView = true } = options
scrollIntoView(option) == option # "false"

\* The offsets a caller may pass: those of the document and some outside it.
Offsets(length) == (0 - 2)..(length + 1)

\* The ranges a caller may pass: every pair of offsets, and the pairs the
\* contract of the function allows, 0 <= from <= to <= doc.length.
AnyRanges(length) ==
  { [from |-> f, to |-> t] : f \in Offsets(length), t \in Offsets(length) }

ValidRanges(length) ==
  { r \in RangesIn(length) : ValidZoomIn(r, length) }

\* EditorView.scrollIntoView(view.state.selection.main, { y })
scrollEffect(pos, y) == [type |-> "scrollIntoView", from |-> pos, to |-> pos, y |-> y]

InitFacade ==
  /\ text \in Texts
  /\ doc = Len(text)
  /\ sel \in 0..doc
  /\ value = Create
  /\ phase = "idle"
  /\ tr = NoTr
  /\ zoomed = NoZoom
  /\ hint = 0
  /\ call = NoCall
  /\ log = <<>>
  /\ visible = Unqueried

\* No call is in progress: both functions run to their end before the
\* caller goes on.
CanCall == phase = "idle" /\ call.pc \in {"none", "returned", "threw"}

\* keepOnlyZoomedContentVisible up to the end of its first view.dispatch
\* (lines 122-145).  doc.lineAt(from) throws for an offset outside the
\* document, before anything was changed.
\* keepOnlyZoomedContentVisible as it would be with one view.dispatch for
\* both effects.
ZoomAndScrollAtOnce(from, to, option) ==
  IF from < 0 \/ from > doc
    THEN /\ call' = [op |-> "zoomToRange", from |-> from, to |-> to,
                     scroll |-> option, pc |-> "threw"]
         /\ log' = <<>>
         /\ UNCHANGED <<doc, value, phase, tr, zoomed, text, sel, hint, visible>>
    ELSE LET indentChars == calculateIndentLevel(text, from) IN
         /\ hint' = applyIndentRemoval(hint, indentChars)
         /\ Apply(<<>>, <<zoomInEffect(from, to), scrollEffect(sel, "start")>>)
         /\ call' = [op |-> "zoomToRange", from |-> from, to |-> to,
                     scroll |-> option, pc |-> "scrollDispatched"]
         /\ log' = <<[req |-> "zoomIn"],
                     [req |-> "scroll", y |-> "start", pos |-> sel,
                      seen |-> calculateHiddenContentRanges(value)]>>

keepOnlyZoomedContentVisible(from, to, option) ==
  IF from < 0 \/ from > doc
    THEN /\ call' = [op |-> "zoomToRange", from |-> from, to |-> to,
                     scroll |-> option, pc |-> "threw"]
         /\ log' = <<>>
         /\ UNCHANGED <<doc, value, phase, tr, zoomed, text, sel, hint, visible>>
    ELSE LET indentChars == calculateIndentLevel(text, from) IN
         /\ hint' = applyIndentRemoval(hint, indentChars)
         /\ Apply(<<>>, <<zoomInEffect(from, to)>>)
         /\ call' = [op |-> "zoomToRange", from |-> from, to |-> to,
                     scroll |-> option, pc |-> "zoomDispatched"]
         /\ log' = <<[req |-> "zoomIn"]>>

\* A call that keeps the contract.
ZoomToRange ==
  /\ CanCall
  /\ \E r \in ValidRanges(doc), option \in ScrollOptions :
       keepOnlyZoomedContentVisible(r.from, r.to, option)

\* showAllContent as it would be without line 162, removeIndentRemoval.
ShowAllKeepsIndent ==
  /\ CanCall
  /\ Apply(<<>>, <<zoomOutEffect>>)
  /\ call' = [op |-> "showAll", from |-> 0, to |-> 0, scroll |-> "omitted",
              pc |-> "zoomDispatched"]
  /\ log' = <<[req |-> "zoomOut"]>>
  /\ UNCHANGED hint

\* showAllContent up to the end of its first view.dispatch (lines 158-164).
ShowAll ==
  /\ CanCall
  /\ hint' = removeIndentRemoval(hint)
  /\ Apply(<<>>, <<zoomOutEffect>>)
  /\ call' = [op |-> "showAll", from |-> 0, to |-> 0, scroll |-> "omitted",
              pc |-> "zoomDispatched"]
  /\ log' = <<[req |-> "removeIndent"], [req |-> "zoomOut"]>>

\* The second view.dispatch of either function (lines 147-155, 165-171):
\* view.state is the state the first dispatch left.
ScrollIntoView ==
  /\ phase = "idle"
  /\ call.pc = "zoomDispatched"
  /\ call.op = "zoomToRange" => scrollIntoView(call.scroll)
  /\ LET y == IF call.op = "zoomToRange" THEN "start" ELSE "center" IN
     /\ Apply(<<>>, <<scrollEffect(sel, y)>>)
     /\ log' = Append(log, [req |-> "scroll", y |-> y, pos |-> sel,
                            seen |-> calculateHiddenContentRanges(value)])
  /\ call' = [call EXCEPT !.pc = "scrollDispatched"]
  /\ UNCHANGED hint

\* The function returns.
Return ==
  /\ phase = "idle"
  /\ \/ call.pc = "scrollDispatched"
     \/ /\ call.pc = "zoomDispatched"
        /\ call.op = "zoomToRange"
        /\ ~scrollIntoView(call.scroll)
  /\ call' = [call EXCEPT !.pc = "returned"]
  /\ UNCHANGED <<doc, value, phase, tr, zoomed, text, sel, hint, log, visible>>

NextFacade == ZoomToRange \/ ShowAll \/ ScrollIntoView \/ Return \/ Settle

SpecFacade == InitFacade /\ [][NextFacade]_vars


\* The hidden ranges zoom-in(f, t) leaves on a document of length L, as the
\* ordered list the state field holds.
SegmentList(f, t, L) ==
  (IF f > 0 THEN <<Prefix(f)>> ELSE <<>>) \o (IF t < L THEN <<Suffix(t, L)>> ELSE <<>>)

\* C12: zoomToRange asks the host for the zoom-in and for the scroll to the
\* start of the selection in two requests, the zoom-in first: a scroll is
\* only asked for once the hidden segments are those of the zoom-in, the
\* selection it names is the one of the state the zoom-in left, and no scroll
\* is asked for when scrollIntoView is false (it is true when left out).
C12_ZoomThenScroll ==
  (call.op = "zoomToRange" /\ call.pc # "threw") =>
    /\ Len(log) \in {1, 2}
    /\ log[1] = [req |-> "zoomIn"]
    /\ phase = "updating" => Len(tr.effects) = 1
    /\ (phase = "updating" /\ tr.effects[1].type = "scrollIntoView") =>
         /\ tr.effects[1] = scrollEffect(sel, "start")
         /\ tr.startValue = SegmentList(call.from, call.to, doc)
    /\ Len(log) = 2 =>
         /\ scrollIntoView(call.scroll)
         /\ log[2] = [req |-> "scroll", y |-> "start", pos |-> sel,
                      seen |-> SegmentList(call.from, call.to, doc)]
    /\ call.pc = "returned" =>
         Len(log) = (IF call.scroll = "false" THEN 1 ELSE 2)

\* The scroll request of a zoom that hid both sides, the cursor not at the
\* start of the document, the option left out.
C12_Witness ==
  /\ call.op = "zoomToRange"
  /\ call.pc = "scrollDispatched"
  /\ call.scroll = "omitted"
  /\ phase = "updating"
  /\ Len(value) = 2
  /\ sel > 0

\* C13: showAll, in whatever state, first clears the presentation hint, then
\* asks for the zoom-out, then in a later request of its own for the scroll
\* to the centre of the selection; when it returns no segment is hidden and
\* no hint is active.
C13_ShowAllOrder ==
  call.op = "showAll" =>
    /\ hint = 0
    /\ Len(log) \in {2, 3}
    /\ log[1] = [req |-> "removeIndent"]
    /\ log[2] = [req |-> "zoomOut"]
    /\ phase = "updating" => Len(tr.effects) = 1
    /\ (phase = "updating" /\ tr.effects[1].type = "scrollIntoView") =>
         /\ tr.effects[1] = scrollEffect(sel, "center")
         /\ tr.startValue = <<>>
    /\ Len(log) = 3 =>
         log[3] = [req |-> "scroll", y |-> "center", pos |-> sel, seen |-> <<>>]
    /\ call.pc = "returned" =>
         /\ Len(log) = 3
         /\ calculateHiddenContentRanges(value) = <<>>

\* The zoom-out showAll asks for, removing two segments.
C13_Witness ==
  /\ call.op = "showAll"
  /\ phase = "updating"
  /\ tr.effects = <<zoomOutEffect>>
  /\ Len(tr.startValue) = 2


\* ---------------------------------------------- callers outside the contract

\* A call with any pair of offsets: nothing in keepOnlyZoomedContentVisible
\* looks at from and to before they reach doc.lineAt and the update.
ZoomToRangeAny ==
  /\ CanCall
  /\ \E r \in AnyRanges(doc), option \in ScrollOptions :
       keepOnlyZoomedContentVisible(r.from, r.to, option)

\* Documents of up to MaxText plain characters, the cursor at the start.
InitAnyCaller ==
  /\ doc \in 0..MaxText
  /\ text = Xs(doc)
  /\ sel = 0
  /\ value = Create
  /\ phase = "idle"
  /\ tr = NoTr
  /\ zoomed = NoZoom
  /\ hint = 0
  /\ call = NoCall
  /\ log = <<>>
  /\ visible = Unqueried

NextAnyCaller == ZoomToRangeAny \/ ShowAll \/ ScrollIntoView \/ Return \/ Settle

SpecAnyCaller == InitAnyCaller /\ [][NextAnyCaller]_vars

\* C14: whatever range zoomToRange is called with (from > to, a negative
\* offset, an offset beyond the document), every hidden segment installed
\* satisfies 0 <= from <= to <= document length: the call is rejected or its
\* range is clamped.
C14_NoMalformedSegment ==
  \A i \in 1..Len(value) :
    /\ 0 <= value[i].from
    /\ value[i].from <= value[i].to
    /\ value[i].to <= doc


\* C15: an update that carries a change batch and one zoom-in(from, to)
\* leaves what a zoom-in(from, to) alone leaves on the changed document:
\* nothing of the segments held before, from and to taken as offsets of the
\* changed document, the suffix ending at its length and not at the length
\* before the changes.
C15_MixedUpdate ==
  (LoneZoomIn /\ tr.changes # <<>>) =>
    LET e == tr.effects[1] IN
    /\ value = SegmentList(e.from, e.to, doc)
    /\ value = Update(Create, ChangeSetOf(<<>>, doc), <<e>>)

\* An insertion and a zoom-in in one transaction, on a state that hid two
\* other segments; the new suffix ends at the new length.
C15_Witness ==
  /\ LoneZoomIn
  /\ Len(tr.changes) = 1
  /\ tr.changes[1].ins > tr.changes[1].to - tr.changes[1].from
  /\ Len(tr.startValue) = 2
  /\ Len(value) = 2
  /\ value[1].to # tr.startValue[1].to
  /\ value[2].to = doc
  /\ doc > tr.startDoc


\* C16: an update that carries a change batch and no zoom effect maps the
\* segments and leaves as many segments as there were, whatever the batch
\* deletes: Idle stays Idle and Zoomed stays Zoomed.
C16_SegmentCountKept ==
  (phase = "updating" /\ tr.effects = <<>>) =>
    Len(calculateHiddenContentRanges(value)) = Len(calculateHiddenContentRanges(tr.startValue))


\* The transaction deleted the k characters from offset p on and did
\* nothing else.
Deleted(p, k) ==
  /\ phase = "updating"
  /\ tr.effects = <<>>
  /\ tr.changes = <<[from |-> p, to |-> p + k, ins |-> 0]>>

\* C17: after zoom-in(from, to) with 0 < from <= to < document length,
\* inserting N characters at an offset p of the visible range,
\* from <= p <= to, makes the visible range (from, to + N), and deleting k
\* characters that lie inside the visible range makes it (from, to - k): the
\* prefix keeps its offsets and the suffix moves.
C17_EditInsideVisible ==
  (FreshZoom /\ zoomed.kind = "both") =>
    /\ \A p \in zoomed.from..zoomed.to, n \in 1..MaxIns :
         Inserted(p, n) =>
           /\ calculateVisibleContentRange(value, doc) =
                [from |-> zoomed.from, to |-> zoomed.to + n]
           /\ value[1] = tr.startValue[1]
           /\ value[2] = [from |-> tr.startValue[2].from + n, to |-> doc]
    /\ \A p \in zoomed.from..zoomed.to, k \in 1..MaxLen :
         (Deleted(p, k) /\ p + k <= zoomed.to) =>
           /\ calculateVisibleContentRange(value, doc) =
                [from |-> zoomed.from, to |-> zoomed.to - k]
           /\ value[1] = tr.startValue[1]
           /\ value[2] = [from |-> tr.startValue[2].from - k, to |-> doc]

\* Two characters typed at the end of the visible range (p = to) of
\* zoom-in(1, 2).
C17_Witness ==
  /\ FreshZoom
  /\ zoomed.kind = "both"
  /\ zoomed.from = 1
  /\ zoomed.to = 2
  /\ Inserted(2, 2)
  /\ calculateVisibleContentRange(value, doc) = [from |-> 1, to |-> 4]


\* C18: after every zoomToRange(from, to), whatever was called before, the
\* active presentation hint is the indentation depth of the line that holds
\* from; a zoom on a line of depth 0 leaves no hint of an earlier zoom on an
\* indented line.
C18_HintIsIndent ==
  (call.op = "zoomToRange" /\ call.pc # "threw") =>
    hint = calculateIndentLevel(text, call.from)


\* The segments are those of the last zoom-in dispatched alone, as the change
\* batches since have left them.
ZoomedThenEdited == Zoomed /\ (phase = "updating" => tr.effects = <<>>)

\* C19: after a zoom-in within the document and any change batches, those
\* that delete the whole visible region or the characters next to it
\* included, a visible range the query returns is well formed:
\* 0 <= from <= to <= document length.
C19_VisibleWellFormed ==
  LET v == calculateVisibleContentRange(value, doc) IN
  (ZoomedThenEdited /\ v # None) =>
    /\ 0 <= v.from
    /\ v.from <= v.to
    /\ v.to <= doc

\* C20: a lone suffix segment is not read as a prefix: after zoom-in(0, to)
\* with to < document length and any change batches, the deletion of all
\* that precedes the suffix included, a visible range the query reports
\* still starts at 0; and after zoom-in(from, document length) with from > 0
\* and any change batches it ends at the length of the document.
C20_LoneSegmentSide ==
  LET v == calculateVisibleContentRange(value, doc) IN
  /\ (ZoomedThenEdited /\ zoomed.kind = "suffix" /\ v # None) => v.from = 0
  /\ (ZoomedThenEdited /\ zoomed.kind = "prefix") => (v # None /\ v.to = doc)

====
